---- MODULE Spec2Model ----
(***************************************************************************)
(* Bitbucket webhook endpoint of sentry-plugins                            *)
(* (src/sentry_plugins/bitbucket/endpoints/webhook.py): the inbound gate   *)
(* (dispatch/post), the push-event handler and the storage rows it reads   *)
(* and writes.  Every database operation of a request is one step, so      *)
(* concurrent deliveries interleave between operations.                    *)
(***************************************************************************)
EXTENDS Integers, Sequences, FiniteSets, TLC

\* ------------------------------------------------------------------ bounds
\* number of deliveries the endpoint receives (each may run concurrently)
MaxRequests == 2

Requests == 1..MaxRequests

\* ------------------------------------------------------- program constants
\* len(author_email) > 75
MaxEmailLength == 75
\* ipaddress.ip_network(u'104.192.143.0/24')
PrefixLength == 24

NULL == 0

\* -------------------------------------------------------------- strings
\* Author strings are sequences of one-character strings.
NL == "\n"

RECURSIVE Repeat(_, _)
Repeat(c, n) == IF n = 0 THEN <<>> ELSE <<c>> \o Repeat(c, n - 1)

\* index of the '>' that (?=>$) can stand before: the last character, or the
\* one before a final newline; 0 when the string does not end that way
ClosingBracket(raw) ==
    LET n == Len(raw) IN
    IF n >= 1 /\ raw[n] = ">" THEN n
    ELSE IF n >= 2 /\ raw[n] = NL /\ raw[n - 1] = ">" THEN n - 1
    ELSE 0

\* start positions re.search can match at: preceded by '<', and '.*' reaches
\* the closing bracket without crossing a newline
MatchStarts(raw) ==
    LET j == ClosingBracket(raw) IN
    IF j = 0 THEN {}
    ELSE {i \in 2..j : /\ raw[i - 1] = "<"
                       /\ \A k \in i..(j - 1) : raw[k] # NL}

Min(S) == CHOOSE x \in S : \A y \in S : x <= y

\* re.search('(?<=<).*(?=>$)', raw): the match object, None when none
NoMatch == [found |-> FALSE]
re_search(raw) ==
    IF MatchStarts(raw) = {} THEN NoMatch
    ELSE [found |-> TRUE,
          group |-> SubSeq(raw, Min(MatchStarts(raw)), ClosingBracket(raw) - 1)]

\* parse_raw_user(raw): .group(0) of the match; raises AttributeError on None
parse_raw_user(raw) ==
    LET m == re_search(raw) IN
    IF m.found THEN [raised |-> FALSE, value |-> m.group]
    ELSE [raised |-> TRUE]

IsSpace(c) == c \in {" ", NL}

RECURSIVE lstrip(_)
lstrip(s) == IF s # <<>> /\ IsSpace(Head(s)) THEN lstrip(Tail(s)) ELSE s

RECURSIVE rstrip(_)
rstrip(s) ==
    IF s # <<>> /\ IsSpace(s[Len(s)]) THEN rstrip(SubSeq(s, 1, Len(s) - 1)) ELSE s

strip(s) == rstrip(lstrip(s))

\* raw.split('<')[0]: everything before the first '<'
SplitHead(raw) ==
    LET P == {i \in 1..Len(raw) : raw[i] = "<"} IN
    IF P = {} THEN raw ELSE SubSeq(raw, 1, Min(P) - 1)

\* commit['author']['raw'].split('<')[0].strip()
AuthorName(raw) == strip(SplitHead(raw))

\* ------------------------------------------------------------ addresses
Ip(a, b, c, d) == ((a * 256 + b) * 256 + c) * 256 + d

NetworkAddress == Ip(104, 192, 143, 0)

\* InBitbucketRange with a /16 network
InBitbucketRange16(addr) == addr \div (2 ^ 16) = NetworkAddress \div (2 ^ 16)

\* ip_address(REMOTE_ADDR) in BITBUCKET_IP_RANGE
InBitbucketRange(addr) ==
    addr \div (2 ^ (32 - PrefixLength)) = NetworkAddress \div (2 ^ (32 - PrefixLength))

\* --------------------------------------------------------------- dates
\* a payload date is local time (minutes) plus its UTC offset (minutes);
\* dateutil.parser.parse(...).astimezone(timezone.utc) is the UTC instant
ToUtc(date) == date.local - date.offset

\* ------------------------------------------------------------- payloads
RawJane == <<"J", " ", "<", "j", ">">>
RawDoe  == <<"D", " ", "<", "j", ">">>
RawBob  == <<"B", "<", "b", ">">>
RawBad  == <<"J", " ", "j">>
RawLong == <<"L", "<">> \o Repeat("e", MaxEmailLength + 1) \o <<">">>
RawMax  == <<"M", "<">> \o Repeat("e", MaxEmailLength) \o <<">">>

Date(local, offset) == [local |-> local, offset |-> offset]

CommitOf(hash, message, raw, date) ==
    [hash |-> hash, message |-> message, author |-> [raw |-> raw], date |-> date]

\* a change of push.changes; one without a 'commits' key has commits = <<>>
Change(cs) == [commits |-> cs]

PushEvent(uuid, full_name, changes) ==
    [repository |-> [uuid |-> uuid, full_name |-> full_name],
     push |-> [changes |-> changes]]

\* the end-to-end scenario, then a second change-set by the same email
PushScenario ==
    PushEvent("u1", "new/name",
        << Change(<<CommitOf("h1", "fix bug", RawJane, Date(600, 0))>>),
           Change(<<CommitOf("h2", "fix bug", RawDoe, Date(660, 60))>>) >>)

\* an already used hash with other content, an empty change, an ignored commit
PushOther ==
    PushEvent("u1", "new/name",
        << Change(<<CommitOf("h1", "other", RawBob, Date(720, 60))>>),
           Change(<<>>),
           Change(<<CommitOf("h3", "#skipsentry", RawBad, Date(600, 0)),
                    CommitOf("h2", "fix bug", RawDoe, Date(600, 0))>>) >>)

\* author emails of 76 and of 75 characters
PushLong ==
    PushEvent("u1", "old/name",
        << Change(<<CommitOf("h1", "fix bug", RawLong, Date(600, 0)),
                    CommitOf("h4", "fix bug", RawMax, Date(600, 0))>>) >>)

\* an author string without angle brackets, followed by a later change-set
PushBad ==
    PushEvent("u1", "old/name",
        << Change(<<CommitOf("h5", "fix bug", RawBad, Date(600, 0))>>),
           Change(<<CommitOf("h2", "fix bug", RawJane, Date(600, 0))>>) >>)

\* a JSON null where the hash of a commit is expected
JsonNull == "<null>"

\* a push for the repository with external id u2, its first commit without a
\* hash
PushTwo ==
    PushEvent("u2", "two",
        << Change(<<CommitOf(JsonNull, "fix bug", RawJane, Date(600, 0))>>),
           Change(<<CommitOf("h1", "fix bug", RawJane, Date(600, 0))>>) >>)

\* request bodies that are well-formed JSON, with the document each encodes
JsonDocs ==
    [b \in {"scenario", "other", "long", "bad", "two"} |->
        CASE b = "scenario" -> PushScenario
          [] b = "other"    -> PushOther
          [] b = "long"     -> PushLong
          [] b = "bad"      -> PushBad
          [] b = "two"      -> PushTwo]

EmptyBody == ""
MalformedBody == "{"

\* json.loads(body.decode('utf-8')); raises JSONDecodeError on other bodies
json_loads(body) ==
    IF body \in DOMAIN JsonDocs THEN [raised |-> FALSE, value |-> JsonDocs[body]]
    ELSE [raised |-> TRUE]

\* request.META without HTTP_X_EVENT_KEY
NoHeader == "<absent>"

Request(method, organization_id, body, event_key, remote_addr) ==
    [method |-> method, organization_id |-> organization_id, body |-> body,
     event_key |-> event_key, remote_addr |-> remote_addr]

\* deliveries of push events by the provider
Deliveries ==
    {Request("POST", o, b, "repo:push", Ip(104, 192, 143, 7)) :
        o \in {1, 2}, b \in DOMAIN JsonDocs}

\* requests with every combination of gate defects
GateRequests ==
    {Request(m, o, b, k, a) :
        m \in {"POST", "GET"}, o \in {1, 3},
        b \in {EmptyBody, MalformedBody, "scenario"},
        k \in {NoHeader, "repo:push", "repo:fork"},
        a \in {Ip(104, 192, 143, 0), Ip(104, 192, 143, 255),
               Ip(104, 192, 142, 255), Ip(104, 192, 144, 0)}}

\* -------------------------------------------------------------- storage
\* Organization rows (ids); immutable here
Organizations == {1, 2}

\* Repository rows, created elsewhere
InitRepository ==
    [id \in {1, 2, 3} |->
        CASE id = 1 -> [organization_id |-> 1, provider |-> "bitbucket",
                        external_id |-> "u1", name |-> "old/name"]
          [] id = 2 -> [organization_id |-> 2, provider |-> "bitbucket",
                        external_id |-> "u2", name |-> "two"]
          [] id = 3 -> [organization_id |-> 1, provider |-> "github",
                        external_id |-> "u2", name |-> "two"]]

VARIABLES
    Repository,     \* id -> Repository row
    CommitAuthor,   \* set of CommitAuthor rows
    Commit,         \* set of Commit rows
    request,        \* per delivery: the request, once received
    pc,             \* per delivery: where its handling stands
    status,         \* per delivery: status of the response, 0 before it
    event,          \* post: the parsed event handed to the handler
    repo,           \* __call__: the Repository object loaded
    authors,        \* __call__: the per-request memo email -> CommitAuthor row
    author,         \* __call__: author of the commit being written
    idx             \* __call__: position in the commits of the payload

vars == <<Repository, CommitAuthor, Commit, request, pc, status, event, repo,
          authors, author, idx>>

storage == <<Repository, CommitAuthor, Commit>>

NoRequest == [method |-> "none"]
NoEvent == [repository |-> "none"]
NoRepo == [id |-> 0]
EmptyMemo == [e \in {} |-> NULL]

Init ==
    /\ Repository = InitRepository
    /\ CommitAuthor = {}
    /\ Commit = {}
    /\ request = [r \in Requests |-> NoRequest]
    /\ pc = [r \in Requests |-> "idle"]
    /\ status = [r \in Requests |-> 0]
    /\ event = [r \in Requests |-> NoEvent]
    /\ repo = [r \in Requests |-> NoRepo]
    /\ authors = [r \in Requests |-> EmptyMemo]
    /\ author = [r \in Requests |-> NULL]
    /\ idx = [r \in Requests |-> 1]

\* ---------------------------------------------------------- inbound gate
\* BitbucketWebhookEndpoint._handlers / get_handler; None when not mapped
None == "None"
get_handler(event_type) ==
    IF event_type = "repo:push" THEN "PushEventWebhook" ELSE None

\* GateStatus with the body parsed before the address is checked
GateStatusJsonFirst(q) ==
    IF q.method # "POST" THEN 405
    ELSE IF q.organization_id \notin Organizations THEN 400
    ELSE IF q.body = EmptyBody THEN 400
    ELSE IF q.event_key = NoHeader THEN 400
    ELSE IF get_handler(q.event_key) = None THEN 204
    ELSE IF json_loads(q.body).raised THEN 400
    ELSE IF ~InBitbucketRange(q.remote_addr) THEN 401
    ELSE 0

\* dispatch and post up to the handler call: the status of the early return
\* taken, 0 when the handler is called
GateStatus(q) ==
    IF q.method # "POST" THEN 405
    ELSE IF q.organization_id \notin Organizations THEN 400
    ELSE IF q.body = EmptyBody THEN 400
    ELSE IF q.event_key = NoHeader THEN 400
    ELSE IF get_handler(q.event_key) = None THEN 204
    ELSE IF ~InBitbucketRange(q.remote_addr) THEN 401
    ELSE IF json_loads(q.body).raised THEN 400
    ELSE 0

\* a request arrives: dispatch/post answer it or call the handler
post(r, q) ==
    /\ pc[r] = "idle"
    /\ request' = [request EXCEPT ![r] = q]
    /\ IF GateStatus(q) # 0
       THEN /\ status' = [status EXCEPT ![r] = GateStatus(q)]
            /\ pc' = [pc EXCEPT ![r] = "done"]
            /\ UNCHANGED event
       ELSE /\ event' = [event EXCEPT ![r] = json_loads(q.body).value]
            /\ pc' = [pc EXCEPT ![r] = "get_repo"]
            /\ UNCHANGED status
    /\ UNCHANGED <<storage, repo, authors, author, idx>>

\* ------------------------------------------------------ push event handler
\* the commits of the payload in the order the two loops visit them
RECURSIVE CommitsOf(_)
CommitsOf(changes) ==
    IF changes = <<>> THEN <<>>
    ELSE Head(changes).commits \o CommitsOf(Tail(changes))

Current(r) == CommitsOf(event[r].push.changes)[idx[r]]

\* RepositoryMatches without the provider filter
RepositoryMatchesAnyProvider(organization_id, uuid) ==
    {id \in DOMAIN Repository :
        /\ Repository[id].organization_id = organization_id
        /\ Repository[id].external_id = uuid}

\* Repository.objects.get(organization_id, provider='bitbucket', external_id)
RepositoryMatches(organization_id, uuid) ==
    {id \in DOMAIN Repository :
        /\ Repository[id].organization_id = organization_id
        /\ Repository[id].provider = "bitbucket"
        /\ Repository[id].external_id = uuid}

\* Repository.objects.get(...): Http404 when no row matches; otherwise the
\* row is loaded and its stored name compared with the payload's
get_repo(r) ==
    /\ pc[r] = "get_repo"
    /\ LET found == RepositoryMatches(request[r].organization_id,
                                      event[r].repository.uuid) IN
       IF found = {}
       THEN /\ status' = [status EXCEPT ![r] = 404]
            /\ pc' = [pc EXCEPT ![r] = "done"]
            /\ UNCHANGED repo
       ELSE LET id == CHOOSE i \in found : TRUE IN
            /\ repo' = [repo EXCEPT ![r] = [id |-> id, name |-> Repository[id].name]]
            /\ pc' = [pc EXCEPT ![r] =
                        IF Repository[id].name # event[r].repository.full_name
                        THEN "save_repo" ELSE "commit"]
            /\ UNCHANGED status
    /\ UNCHANGED <<storage, request, event, authors, author, idx>>

\* save_repo without repo.save(): only the loaded object is renamed
save_repo_unsaved(r) ==
    /\ pc[r] = "save_repo"
    /\ repo' = [repo EXCEPT ![r].name = event[r].repository.full_name]
    /\ pc' = [pc EXCEPT ![r] = "commit"]
    /\ UNCHANGED <<storage, request, status, event, authors, author, idx>>

\* repo.config['name'] = event['repository']['full_name']; repo.save()
save_repo(r) ==
    /\ pc[r] = "save_repo"
    /\ Repository' = [Repository EXCEPT
                        ![repo[r].id].name = event[r].repository.full_name]
    /\ repo' = [repo EXCEPT ![r].name = event[r].repository.full_name]
    /\ pc' = [pc EXCEPT ![r] = "commit"]
    /\ UNCHANGED <<CommitAuthor, Commit, request, status, event, authors, author, idx>>

\* RepositoryProvider.should_ignore_commit(message)
should_ignore_commit(message) == message = "#skipsentry"

\* TooLong with >= for >
TooLongInclusive(email) == Len(email) >= MaxEmailLength

\* len(author_email) > 75
TooLong(email) == Len(email) > MaxEmailLength

\* next_commit with the author string parsed before the ignore test
next_commit_parse_first(r) ==
    /\ pc[r] = "commit"
    /\ IF idx[r] > Len(CommitsOf(event[r].push.changes))
       THEN /\ status' = [status EXCEPT ![r] = 204]
            /\ pc' = [pc EXCEPT ![r] = "done"]
            /\ UNCHANGED <<author, idx>>
       ELSE LET parsed == parse_raw_user(Current(r).author.raw) IN
            IF parsed.raised
            THEN /\ status' = [status EXCEPT ![r] = 500]
                 /\ pc' = [pc EXCEPT ![r] = "done"]
                 /\ UNCHANGED <<author, idx>>
            ELSE IF should_ignore_commit(Current(r).message)
            THEN /\ idx' = [idx EXCEPT ![r] = @ + 1]
                 /\ UNCHANGED <<status, pc, author>>
            ELSE IF TooLong(parsed.value)
            THEN /\ author' = [author EXCEPT ![r] = NULL]
                 /\ pc' = [pc EXCEPT ![r] = "create_commit"]
                 /\ UNCHANGED <<status, idx>>
            ELSE IF parsed.value \notin DOMAIN authors[r]
            THEN /\ pc' = [pc EXCEPT ![r] = "get_author"]
                 /\ UNCHANGED <<status, author, idx>>
            ELSE /\ author' = [author EXCEPT ![r] = authors[r][parsed.value].id]
                 /\ pc' = [pc EXCEPT ![r] = "create_commit"]
                 /\ UNCHANGED <<status, idx>>
    /\ UNCHANGED <<storage, request, event, repo, authors>>

\* head of the loop body, up to the choice of how the author is obtained;
\* the handler returns (204) when the loops are exhausted, and the request
\* fails (500) when parse_raw_user raises
next_commit(r) ==
    /\ pc[r] = "commit"
    /\ IF idx[r] > Len(CommitsOf(event[r].push.changes))
       THEN /\ status' = [status EXCEPT ![r] = 204]
            /\ pc' = [pc EXCEPT ![r] = "done"]
            /\ UNCHANGED <<author, idx>>
       ELSE IF should_ignore_commit(Current(r).message)
       THEN /\ idx' = [idx EXCEPT ![r] = @ + 1]
            /\ UNCHANGED <<status, pc, author>>
       ELSE LET parsed == parse_raw_user(Current(r).author.raw) IN
            IF parsed.raised
            THEN /\ status' = [status EXCEPT ![r] = 500]
                 /\ pc' = [pc EXCEPT ![r] = "done"]
                 /\ UNCHANGED <<author, idx>>
            ELSE IF TooLong(parsed.value)
            THEN /\ author' = [author EXCEPT ![r] = NULL]
                 /\ pc' = [pc EXCEPT ![r] = "create_commit"]
                 /\ UNCHANGED <<status, idx>>
            ELSE IF parsed.value \notin DOMAIN authors[r]
            THEN /\ pc' = [pc EXCEPT ![r] = "get_author"]
                 /\ UNCHANGED <<status, author, idx>>
            ELSE /\ author' = [author EXCEPT ![r] = authors[r][parsed.value].id]
                 /\ pc' = [pc EXCEPT ![r] = "create_commit"]
                 /\ UNCHANGED <<status, idx>>
    /\ UNCHANGED <<storage, request, event, repo, authors>>

\* the email of the commit being processed (parse_raw_user did not raise)
author_email(r) == parse_raw_user(Current(r).author.raw).value

\* AuthorLookup by email alone
AuthorLookupAnyOrganization(organization_id, email) ==
    {a \in CommitAuthor : a.email = email}

\* the lookup of get_or_create: rows with organization_id and email
AuthorLookup(organization_id, email) ==
    {a \in CommitAuthor : a.organization_id = organization_id /\ a.email = email}

\* unique index of CommitAuthor on (organization, email)
AuthorConflict(row) ==
    \E a \in CommitAuthor :
        a.organization_id = row.organization_id /\ a.email = row.email

\* CommitConflict with the index on (repository, key, message)
CommitConflictWithMessage(row) ==
    \E c \in Commit : /\ c.repository_id = row.repository_id
                      /\ c.key = row.key
                      /\ c.message = row.message

\* unique index of Commit on (repository, key)
CommitConflict(row) ==
    \E c \in Commit : c.repository_id = row.repository_id /\ c.key = row.key

\* a constraint of Commit other than the unique index: key is NOT NULL
NotNullViolation(row) == row.key = JsonNull

\* the insert raises IntegrityError
IntegrityError(row) == CommitConflict(row) \/ NotNullViolation(row)

\* the row get_or_create would insert: lookup fields plus defaults
NewAuthor(r) ==
    [id |-> Cardinality(CommitAuthor) + 1,
     organization_id |-> request[r].organization_id,
     email |-> author_email(r),
     name |-> AuthorName(Current(r).author.raw)]

\* authors[author_email] = author = ...
Remember(r, row) ==
    /\ authors' = [authors EXCEPT ![r] = (author_email(r) :> row) @@ @]
    /\ author' = [author EXCEPT ![r] = row.id]

\* get_author as update_or_create: a row that is found takes the display name
\* of the commit at hand
get_author_update(r) ==
    /\ pc[r] = "get_author"
    /\ LET found == AuthorLookup(request[r].organization_id, author_email(r)) IN
       IF found # {}
       THEN LET a == CHOOSE a \in found : TRUE
                b == [a EXCEPT !.name = AuthorName(Current(r).author.raw)] IN
            /\ CommitAuthor' = (CommitAuthor \ {a}) \cup {b}
            /\ Remember(r, b)
            /\ pc' = [pc EXCEPT ![r] = "create_commit"]
       ELSE /\ pc' = [pc EXCEPT ![r] = "create_author"]
            /\ UNCHANGED <<CommitAuthor, authors, author>>
    /\ UNCHANGED <<Repository, Commit, request, status, event, repo, idx>>

\* get_or_create, first half: the get
get_author(r) ==
    /\ pc[r] = "get_author"
    /\ LET found == AuthorLookup(request[r].organization_id, author_email(r)) IN
       IF found # {}
       THEN /\ Remember(r, CHOOSE a \in found : TRUE)
            /\ pc' = [pc EXCEPT ![r] = "create_commit"]
       ELSE /\ pc' = [pc EXCEPT ![r] = "create_author"]
            /\ UNCHANGED <<authors, author>>
    /\ UNCHANGED <<storage, request, status, event, repo, idx>>

\* create_author keeping the object it failed to insert instead of fetching
\* the row that won
create_author_unsaved(r) ==
    /\ pc[r] = "create_author"
    /\ IF AuthorConflict(NewAuthor(r))
       THEN /\ Remember(r, NewAuthor(r))
            /\ UNCHANGED CommitAuthor
       ELSE /\ CommitAuthor' = CommitAuthor \cup {NewAuthor(r)}
            /\ Remember(r, NewAuthor(r))
    /\ pc' = [pc EXCEPT ![r] = "create_commit"]
    /\ UNCHANGED <<Repository, Commit, request, status, event, repo, idx>>

\* get_or_create, second half: the create in its own atomic block; on
\* IntegrityError the row that won is fetched instead
create_author(r) ==
    /\ pc[r] = "create_author"
    /\ IF AuthorConflict(NewAuthor(r))
       THEN /\ Remember(r, CHOOSE a \in AuthorLookup(request[r].organization_id,
                                                     author_email(r)) : TRUE)
            /\ UNCHANGED CommitAuthor
       ELSE /\ CommitAuthor' = CommitAuthor \cup {NewAuthor(r)}
            /\ Remember(r, NewAuthor(r))
    /\ pc' = [pc EXCEPT ![r] = "create_commit"]
    /\ UNCHANGED <<Repository, Commit, request, status, event, repo, idx>>

\* the row Commit.objects.create(...) inserts
NewCommit(r) ==
    [id |-> Cardinality(Commit) + 1,
     repository_id |-> repo[r].id,
     organization_id |-> request[r].organization_id,
     key |-> Current(r).hash,
     message |-> Current(r).message,
     author |-> author[r],
     date_added |-> ToUtc(Current(r).date)]

\* create_commit under a lock shared by the requests: it waits while another
\* request is inside its own insert
create_commit_locked(r) ==
    /\ pc[r] = "create_commit"
    /\ \A q \in Requests \ {r} : pc[q] # "create_commit"
    /\ IF IntegrityError(NewCommit(r))
       THEN UNCHANGED Commit
       ELSE Commit' = Commit \cup {NewCommit(r)}
    /\ idx' = [idx EXCEPT ![r] = @ + 1]
    /\ pc' = [pc EXCEPT ![r] = "commit"]
    /\ UNCHANGED <<Repository, CommitAuthor, request, status, event, repo,
                   authors, author>>

\* create_commit with the author resolution inside the atomic block: a
\* failed insert also takes back the CommitAuthor row of the commit
create_commit_rollback(r) ==
    /\ pc[r] = "create_commit"
    /\ IF IntegrityError(NewCommit(r))
       THEN /\ CommitAuthor' = {a \in CommitAuthor : a.id # author[r]}
            /\ UNCHANGED Commit
       ELSE /\ Commit' = Commit \cup {NewCommit(r)}
            /\ UNCHANGED CommitAuthor
    /\ idx' = [idx EXCEPT ![r] = @ + 1]
    /\ pc' = [pc EXCEPT ![r] = "commit"]
    /\ UNCHANGED <<Repository, request, status, event, repo, authors, author>>

\* create_commit that passes over the unique index alone: any other integrity
\* error is raised to the caller
create_commit_unique_only(r) ==
    /\ pc[r] = "create_commit"
    /\ IF NotNullViolation(NewCommit(r))
       THEN /\ status' = [status EXCEPT ![r] = 500]
            /\ pc' = [pc EXCEPT ![r] = "done"]
            /\ UNCHANGED <<Commit, idx>>
       ELSE /\ IF CommitConflict(NewCommit(r))
               THEN UNCHANGED Commit
               ELSE Commit' = Commit \cup {NewCommit(r)}
            /\ idx' = [idx EXCEPT ![r] = @ + 1]
            /\ pc' = [pc EXCEPT ![r] = "commit"]
            /\ UNCHANGED status
    /\ UNCHANGED <<Repository, CommitAuthor, request, event, repo, authors, author>>

\* create_commit as an upsert: a row with the same (repository, key) is
\* replaced by the commit at hand
create_commit_upsert(r) ==
    /\ pc[r] = "create_commit"
    /\ IF NotNullViolation(NewCommit(r))
       THEN UNCHANGED Commit
       ELSE Commit' = {c \in Commit : ~(/\ c.repository_id = repo[r].id
                                        /\ c.key = Current(r).hash)}
                        \cup {NewCommit(r)}
    /\ idx' = [idx EXCEPT ![r] = @ + 1]
    /\ pc' = [pc EXCEPT ![r] = "commit"]
    /\ UNCHANGED <<Repository, CommitAuthor, request, status, event, repo,
                   authors, author>>

\* with transaction.atomic(): Commit.objects.create(...), IntegrityError
\* passed over; then the next commit
create_commit(r) ==
    /\ pc[r] = "create_commit"
    /\ IF IntegrityError(NewCommit(r))
       THEN UNCHANGED Commit
       ELSE Commit' = Commit \cup {NewCommit(r)}
    /\ idx' = [idx EXCEPT ![r] = @ + 1]
    /\ pc' = [pc EXCEPT ![r] = "commit"]
    /\ UNCHANGED <<Repository, CommitAuthor, request, status, event, repo,
                   authors, author>>

\* ------------------------------------------------------- specifications
Receive == \E r \in Requests, q \in Deliveries : post(r, q)
GetRepo == \E r \in Requests : get_repo(r)
SaveRepo == \E r \in Requests : save_repo(r)
NextCommitStep == \E r \in Requests : next_commit(r)
GetAuthor == \E r \in Requests : get_author(r)
CreateAuthor == \E r \in Requests : create_author(r)
CreateCommit == \E r \in Requests : create_commit(r)

Handler == GetRepo \/ SaveRepo \/ NextCommitStep \/ GetAuthor \/ CreateAuthor
              \/ CreateCommit

\* concurrent deliveries of push events
Next == Receive \/ Handler

Spec == Init /\ [][Next]_vars

\* one request with any combination of gate defects
ReceiveAny == \E q \in GateRequests : post(1, q)

NextGate == ReceiveAny \/ Handler

SpecGate == Init /\ [][NextGate]_vars

\* the steps of the handler of one request
HandlerStep(r) ==
    \/ get_repo(r) \/ save_repo(r) \/ next_commit(r)
    \/ get_author(r) \/ create_author(r) \/ create_commit(r)

\* deliveries of one organization: the scenario (duplicates of it contend for
\* the same author email and commit keys), one that fails on its author string
\* and one for a repository that is not registered
ContendingDeliveries == {q \in Deliveries : q.body \in {"scenario", "bad", "two"}
                                            /\ q.organization_id = 1}

ReceiveContending == \E r \in Requests, q \in ContendingDeliveries : post(r, q)

NextFair == ReceiveContending \/ Handler

\* concurrent deliveries, each received request being served: the serving
\* layer keeps running every handler it has started
SpecFair ==
    Init /\ [][NextFair]_vars /\ \A r \in Requests : WF_vars(HandlerStep(r))

\* longest author string tried
MaxRawLen == 4

\* characters of author strings (an author line of git has no newline)
Alphabet == {"<", ">", "a", " "}

\* all author strings of at most n characters
Strings(n) == UNION {[1..k -> Alphabet] : k \in 0..n}

\* a push with one commit whose author string is raw
PushAuthor(raw) ==
    PushEvent("u1", "new/name",
        << Change(<<CommitOf("h1", "fix bug", raw, Date(600, 0))>>) >>)

\* the first request has passed the gate with a push that carries any author
\* string, and is about to enter the handler
InitParse ==
    /\ Repository = InitRepository
    /\ CommitAuthor = {}
    /\ Commit = {}
    /\ request = [r \in Requests |->
                    IF r = 1
                    THEN Request("POST", 1, "author", "repo:push", Ip(104, 192, 143, 7))
                    ELSE NoRequest]
    /\ pc = [r \in Requests |-> IF r = 1 THEN "get_repo" ELSE "idle"]
    /\ status = [r \in Requests |-> 0]
    /\ \E raw \in Strings(MaxRawLen) :
        event = [r \in Requests |-> IF r = 1 THEN PushAuthor(raw) ELSE NoEvent]
    /\ repo = [r \in Requests |-> NoRepo]
    /\ authors = [r \in Requests |-> EmptyMemo]
    /\ author = [r \in Requests |-> NULL]
    /\ idx = [r \in Requests |-> 1]

\* the handler applied to every author string
SpecParse == InitParse /\ [][Handler]_vars

TypeOK ==
    /\ \A r \in Requests : pc[r] \in {"idle", "get_repo", "save_repo", "commit",
                                      "get_author", "create_author",
                                      "create_commit", "done"}
    /\ \A r \in Requests : status[r] \in {0, 204, 400, 401, 404, 405, 500}

\* =================================================================== claims
\* the commits of the payload of request r, and what the handler decides on
\* each from the payload alone
Payload(r) == CommitsOf(event[r].push.changes)
Invoked(r) == event[r] # NoEvent
Registered(r) ==
    /\ Invoked(r)
    /\ \E id \in DOMAIN Repository :
        Repository[id] \in [organization_id : {request[r].organization_id},
                            provider : {"bitbucket"},
                            external_id : {event[r].repository.uuid},
                            name : {Repository[id].name}]
Ignored(c) == should_ignore_commit(c.message)
Unparseable(c) == parse_raw_user(c.author.raw).raised
Oversized(c) ==
    ~Unparseable(c) /\ Len(parse_raw_user(c.author.raw).value) > 75
HasRow(rows, repository_id, key) ==
    \E c \in rows : c.repository_id = repository_id /\ c.key = key

\* request r takes a step
Stepped(r) == pc'[r] # pc[r] \/ idx'[r] # idx[r]

\* C1: once a push event for a registered repository has been handled, handling
\* the identical payload again adds no Commit and no CommitAuthor row, and both
\* deliveries are answered 204.
C1_IdempotentIngestion ==
    [][\A r, q \in Requests :
        (/\ q # r
         /\ Stepped(r)
         /\ pc[q] = "done"
         /\ request'[r] = request[q]
         /\ Registered(q))
        => /\ UNCHANGED <<Commit, CommitAuthor>>
           /\ status[q] = 204
           /\ (pc'[r] = "done" => status'[r] = 204)]_vars

\* the rows half of C1 alone
C1_SameRows ==
    [][\A r, q \in Requests :
        (/\ q # r
         /\ Stepped(r)
         /\ pc[q] = "done"
         /\ request'[r] = request[q]
         /\ Registered(q))
        => UNCHANGED <<Commit, CommitAuthor>>]_vars

\* C2: in every reachable state there is at most one Commit row per
\* (repository, key), whatever the interleaving of the deliveries.
C2_UniqueCommit ==
    \A c1, c2 \in Commit :
        (c1.repository_id = c2.repository_id /\ c1.key = c2.key) => c1 = c2

\* two deliveries of the same event race on the same key: one is about to
\* insert a commit whose row the other has written meanwhile
C2_Witness ==
    \E r, q \in Requests :
        /\ r # q
        /\ request[r] = request[q]
        /\ pc[r] = "create_commit"
        /\ pc[q] = "done"
        /\ idx[r] = 1
        /\ authors[r] # EmptyMemo
        /\ CommitConflict(NewCommit(r))
        /\ \E c \in Commit : c.key = Current(r).hash /\ c.author = author[r]

\* C3: there is at most one CommitAuthor row per (organization, email), and
\* every Commit row a delivery writes for an email (of at most 75 characters)
\* references that row.
C3_UniqueAuthor ==
    /\ [](\A a1, a2 \in CommitAuthor :
            (a1.organization_id = a2.organization_id /\ a1.email = a2.email)
            => a1 = a2)
    /\ [][\A r \in Requests :
            (pc[r] = "create_commit" /\ Commit' # Commit /\ Stepped(r)
             /\ ~TooLong(author_email(r)))
            => \E a \in CommitAuthor :
                /\ a.organization_id = request[r].organization_id
                /\ a.email = author_email(r)
                /\ \A c \in Commit' \ Commit : c.author = a.id]_vars

\* a request found no row for the email, and another request has created the
\* row before the first one's create
C3_Witness ==
    \E r \in Requests :
        /\ pc[r] = "create_author"
        /\ AuthorConflict(NewAuthor(r))

\* C4: for a registered repository, when processing of a commit fails
\* (oversized or unparseable author string), every later non-ignored commit of
\* the payload has a Commit row once the handler has finished.
C4_NoAbort ==
    \A r \in Requests :
        (pc[r] = "done" /\ Registered(r))
        => \A i, k \in 1..Len(Payload(r)) :
            (/\ i < k
             /\ ~Ignored(Payload(r)[i])
             /\ (Unparseable(Payload(r)[i]) \/ Oversized(Payload(r)[i]))
             /\ ~Ignored(Payload(r)[k]))
            => HasRow(Commit, repo[r].id, Payload(r)[k].hash)

\* the defects of a request, stated on the request alone
BadMethod(q) == q.method # "POST"
BadOrganization(q) == q.organization_id \notin {1, 2}
BadBody(q) == q.body = ""
BadHeader(q) == q.event_key = NoHeader
Unhandled(q) == q.event_key # "repo:push"
BadAddress(q) == q.remote_addr \notin {Ip(104, 192, 143, d) : d \in 0..255}
BadJson(q) == q.body = MalformedBody

\* request r was answered s by the gate, without the handler being called
Answered(r, s) == pc[r] = "done" /\ status[r] = s /\ ~Invoked(r)

\* C5: the gate checks run in the order method, organization, body, header,
\* handler, address, JSON; the first failing check alone gives the status, and
\* the handler is called only when all pass.
C5_GateOrder ==
    \A r \in Requests :
        request[r] # NoRequest =>
        LET q == request[r] IN
        /\ BadMethod(q) => Answered(r, 405)
        /\ (~BadMethod(q) /\ BadOrganization(q)) => Answered(r, 400)
        /\ (~BadMethod(q) /\ ~BadOrganization(q) /\ BadBody(q)) => Answered(r, 400)
        /\ (~BadMethod(q) /\ ~BadOrganization(q) /\ ~BadBody(q) /\ BadHeader(q))
            => Answered(r, 400)
        /\ (~BadMethod(q) /\ ~BadOrganization(q) /\ ~BadBody(q) /\ ~BadHeader(q)
            /\ Unhandled(q)) => Answered(r, 204)
        /\ (~BadMethod(q) /\ ~BadOrganization(q) /\ ~BadBody(q) /\ ~BadHeader(q)
            /\ ~Unhandled(q) /\ BadAddress(q)) => Answered(r, 401)
        /\ (~BadMethod(q) /\ ~BadOrganization(q) /\ ~BadBody(q) /\ ~BadHeader(q)
            /\ ~Unhandled(q) /\ ~BadAddress(q) /\ BadJson(q)) => Answered(r, 400)
        /\ Invoked(r) =>
            ~(BadMethod(q) \/ BadOrganization(q) \/ BadBody(q) \/ BadHeader(q)
              \/ Unhandled(q) \/ BadAddress(q) \/ BadJson(q))

\* a push from outside the range with a malformed body was answered 401
C5_Witness ==
    \E r \in Requests :
        /\ pc[r] = "done"
        /\ request[r] # NoRequest
        /\ ~BadMethod(request[r]) /\ ~BadOrganization(request[r])
        /\ request[r].event_key = "repo:push"
        /\ BadAddress(request[r]) /\ BadJson(request[r])
        /\ status[r] = 401

\* a POST of a known organization with a body, from outside the range
Outside(q) ==
    /\ q # NoRequest
    /\ ~BadMethod(q) /\ ~BadOrganization(q) /\ ~BadBody(q) /\ BadAddress(q)

\* C6: a POST for 'repo:push' from outside the CIDR block is answered 401, one
\* for an unrecognized event type is answered 204, and neither changes storage.
C6_IpGating ==
    /\ [](\A r \in Requests :
            Outside(request[r]) /\ ~BadHeader(request[r])
            => /\ pc[r] = "done"
               /\ ~Invoked(r)
               /\ status[r] = IF request[r].event_key = "repo:push" THEN 401 ELSE 204)
    /\ [][\A r \in Requests :
            (Stepped(r) /\ Outside(request'[r]) /\ ~BadHeader(request'[r]))
            => UNCHANGED storage]_vars

\* a well-formed push from just outside the range was answered 401
C6_Witness ==
    \E r \in Requests :
        /\ Outside(request[r])
        /\ request[r].event_key = "repo:push"
        /\ request[r].body = "scenario"
        /\ status[r] = 401
        /\ storage = <<InitRepository, {}, {}>>

\* C7: a push that passes the gate but matches no Repository row of
\* (organization, 'bitbucket', uuid) is answered 404, and no step of the request
\* creates or renames a repository or writes a CommitAuthor or Commit row.
C7_Unregistered ==
    [][\A r \in Requests :
        (Stepped(r) /\ Invoked(r)' /\ ~Registered(r)')
        => /\ UNCHANGED storage
           /\ pc'[r] \in {"get_repo", "done"}
           /\ (pc'[r] = "done" => status'[r] = 404)]_vars

\* organization 1 was sent a push for u2, which it has only as a github
\* repository and organization 2 as a bitbucket one
C7_Witness ==
    \E r \in Requests :
        /\ pc[r] = "done"
        /\ status[r] = 404
        /\ request[r].organization_id = 1
        /\ event[r].repository.uuid = "u2"

\* C8: every request that passes the gate and whose repository is registered
\* is answered 204.
C8_Always204 ==
    \A r \in Requests : (pc[r] = "done" /\ Registered(r)) => status[r] = 204

\* request r finishes a commit whose author email has n characters
Writes(r, n) ==
    /\ pc[r] = "create_commit"
    /\ Stepped(r)
    /\ Len(author_email(r)) = n

\* no author is looked up or created for an email of more than 75 characters
NoOversizedAuthor ==
    /\ \A a \in CommitAuthor : Len(a.email) <= 75
    /\ \A r \in Requests :
        /\ \A e \in DOMAIN authors[r] : Len(e) <= 75
        /\ pc[r] \in {"get_author", "create_author"} => Len(author_email(r)) <= 75

\* an email of exactly 75 characters is resolved to its CommitAuthor row,
\* which a row inserted for the commit references
ResolvedAtLimit(r) ==
    \E a \in CommitAuthor :
        /\ a.organization_id = request[r].organization_id
        /\ a.email = author_email(r)
        /\ author[r] = a.id
        /\ \A c \in Commit' \ Commit : c.author = a.id

C10_Graceful ==
    \A r \in Requests :
        (pc[r] = "done" /\ Registered(r))
        => /\ status[r] # 500
           /\ \A k \in 1..Len(Payload(r)) :
                (~Ignored(Payload(r)[k]) /\ Unparseable(Payload(r)[k]))
                => \E c \in Commit : /\ c.repository_id = repo[r].id
                                     /\ c.key = Payload(r)[k].hash
                                     /\ c.author = NULL

\* request r is at the head of the loop body with a commit left to visit
AtCommit(r) == pc[r] = "commit" /\ idx[r] <= Len(Payload(r))

\* C11: a commit whose message satisfies should_ignore_commit is skipped: no
\* CommitAuthor is looked up or created and no Commit row written for it,
\* whatever its author string, and the loop goes on to the next commit.
C11_IgnoreFilter ==
    /\ [](\A r \in Requests :
            pc[r] \in {"get_author", "create_author", "create_commit"}
            => ~Ignored(Current(r)))
    /\ [][\A r \in Requests :
            (AtCommit(r) /\ Stepped(r) /\ Ignored(Current(r)))
            => /\ UNCHANGED <<storage, authors, author, status>>
               /\ pc'[r] = "commit"
               /\ idx'[r] = idx[r] + 1]_vars
    /\ [](\A r \in Requests :
            (pc[r] = "done" /\ status[r] = 204 /\ Registered(r))
            => \A i, k \in 1..Len(Payload(r)) :
                (i < k /\ Ignored(Payload(r)[i]) /\ ~Ignored(Payload(r)[k]))
                => HasRow(Commit, repo[r].id, Payload(r)[k].hash))

\* the payload with an ignored commit (message '#skipsentry', author string
\* without brackets, hash h3) was handled: no row for h3, a row for the
\* commit after it
C11_Witness ==
    \E r \in Requests :
        /\ pc[r] = "done"
        /\ status[r] = 204
        /\ request[r].body = "other"
        /\ ~\E c \in Commit : c.key = "h3"
        /\ HasRow(Commit, repo[r].id, "h2")

\* requests q and r address the same repository
SameRepository(q, r) ==
    /\ request[q].organization_id = request[r].organization_id
    /\ event[q].repository.uuid = event[r].repository.uuid

\* no other request that may have written the name of r's repository carries
\* another full name
NoOtherName(r) ==
    \A t \in Requests \ {r} :
        (Invoked(t) /\ SameRepository(t, r) /\ pc[t] \notin {"get_repo", "save_repo"})
        => event[t].repository.full_name = event[r].repository.full_name

\* C12: the handler sets the stored name to the payload's full name before it
\* visits the commits; a delivery that reads the repository after an identical
\* delivery has finished performs no repository write; Repository rows are
\* never added or removed, and only their name changes.
C12_RenameSync ==
    /\ [](/\ DOMAIN Repository = {1, 2, 3}
          /\ \A id \in DOMAIN Repository :
                [Repository[id] EXCEPT !.name = InitRepository[id].name]
                    = InitRepository[id])
    /\ [][\A r \in Requests :
            (pc[r] \in {"get_repo", "save_repo"} /\ pc'[r] = "commit")
            => Repository'[repo'[r].id].name = event[r].repository.full_name]_vars
    /\ [][\A r \in Requests :
            (/\ pc[r] = "get_repo"
             /\ Stepped(r)
             /\ NoOtherName(r)
             /\ \E q \in Requests \ {r} :
                    pc[q] = "done" /\ request[q] = request[r] /\ Registered(q))
            => pc'[r] = "commit" /\ Repository' = Repository]_vars

\* the scenario payload, which renames old/name to new/name, is delivered again
\* after its first delivery finished, and has gone on to the commits
C12_Witness ==
    \E r, q \in Requests :
        /\ r # q
        /\ pc[q] = "done"
        /\ pc[r] = "commit"
        /\ request[r] = request[q]
        /\ request[r].body = "scenario"
        /\ idx[r] = 1
        /\ Repository[1].name = "new/name"
        /\ InitRepository[1].name = "old/name"

\* C13: under fair scheduling every received request finishes and returns
\* exactly one response; a request that has not finished can always take its
\* next step, whatever the other requests are doing.
C13_NoBlocking ==
    /\ \A r \in Requests : (pc[r] # "idle") ~> (pc[r] = "done")
    /\ [](\A r \in Requests :
            pc[r] \notin {"idle", "done"} => ENABLED HandlerStep(r))
    /\ [](\A r \in Requests : (pc[r] = "done") <=> (status[r] # 0))
    /\ [][\A r \in Requests : status[r] # 0 => status'[r] = status[r]]_vars

\* two deliveries of the same event were inside the insert of the same commit
\* at the same time
C13_Witness ==
    \E r, q \in Requests :
        /\ r # q
        /\ pc[r] = "create_commit"
        /\ pc[q] = "create_commit"
        /\ request[r] = request[q]
        /\ idx[r] = idx[q]

\* C14 as stated: author resolution and insert are one atomic unit, so every
\* CommitAuthor row in storage belongs to a commit whose insert took effect, or
\* to one whose insert is still to be attempted.
C14_Original ==
    \A a \in CommitAuthor :
        \/ \E c \in Commit : c.author = a.id
        \/ \E r \in Requests : pc[r] = "create_commit" /\ author[r] = a.id

\* C14 as amended: only the commit insert is an atomic unit: when it fails no
\* Commit row is added, and the CommitAuthor row created while resolving that
\* commit's author stays in storage; CommitAuthor rows are never removed.
C14_InsertAtomic ==
    /\ [][\A r \in Requests :
            (pc[r] = "create_commit" /\ Stepped(r)
             /\ HasRow(Commit, repo[r].id, Current(r).hash))
            => /\ Commit' = Commit
               /\ CommitAuthor' = CommitAuthor]_vars
    /\ [][CommitAuthor \subseteq CommitAuthor']_vars

\* the author of a commit whose insert failed on its key is in storage, with no
\* Commit row that references it and no insert pending for it
C14_Witness ==
    \E a \in CommitAuthor :
        /\ ~\E c \in Commit : c.author = a.id
        /\ \A r \in Requests : pc[r] \in {"idle", "done"}
        /\ \E c \in Commit : c.key = "h1"

\* the author string of the only commit of request r
RawOf(r) == Payload(r)[1].author.raw

\* positions of '<' in an author string
Opens(s) == {i \in 1..Len(s) : s[i] = "<"}

\* C15: for every author string that ends with '>' and contains a '<',
\* parse_raw_user returns the substring strictly between the last '<' and the
\* trailing '>' (here: the handler finishes with that email as the one it
\* resolved).
C15_LastBracket ==
    \A r \in Requests :
        (/\ pc[r] = "done"
         /\ Invoked(r)
         /\ Len(RawOf(r)) >= 1
         /\ RawOf(r)[Len(RawOf(r))] = ">"
         /\ Opens(RawOf(r)) # {})
        => /\ status[r] = 204
           /\ \A last \in Opens(RawOf(r)) :
                (\A i \in Opens(RawOf(r)) : i <= last)
                => DOMAIN authors[r] = {SubSeq(RawOf(r), last + 1, Len(RawOf(r)) - 1)}

\* what the code does on author strings without a newline: the substring
\* between the first '<' and the trailing '>'
C15_FirstBracket ==
    \A r \in Requests :
        (/\ pc[r] = "done"
         /\ Invoked(r)
         /\ Len(RawOf(r)) >= 1
         /\ RawOf(r)[Len(RawOf(r))] = ">"
         /\ Opens(RawOf(r)) # {}
         /\ \A i \in 1..Len(RawOf(r)) : RawOf(r)[i] # NL)
        => /\ status[r] = 204
           /\ \A first \in Opens(RawOf(r)) :
                (\A i \in Opens(RawOf(r)) : first <= i)
                => DOMAIN authors[r] = {SubSeq(RawOf(r), first + 1, Len(RawOf(r)) - 1)}

\* name is what stands before the first '<' of raw (all of raw when it has
\* none), without the blanks around it
TrimmedPrefix(raw, name) ==
    LET prefix == IF Opens(raw) = {} THEN raw
                  ELSE SubSeq(raw, 1, Min(Opens(raw)) - 1) IN
    /\ \E i, j \in 0..Len(prefix) :
        /\ i + Len(name) + j = Len(prefix)
        /\ \A k \in 1..Len(prefix) :
            prefix[k] = IF k <= i \/ k > i + Len(name) THEN " " ELSE name[k - i]
    /\ name # <<>> => (name[1] # " " /\ name[Len(name)] # " ")

\* C16: the name of a CommitAuthor is set at creation, from the part of the
\* author string before '<', trimmed; afterwards no commit or delivery with
\* the same email, whatever its display name, changes the row.
C16_NameAtCreation ==
    /\ [][\A r \in Requests :
            (pc[r] = "create_author" /\ Stepped(r))
            => \A a \in CommitAuthor' \ CommitAuthor :
                TrimmedPrefix(Current(r).author.raw, a.name)]_vars
    /\ [][\A a \in CommitAuthor, b \in CommitAuthor' :
            (a.organization_id = b.organization_id /\ a.email = b.email)
            => b = a]_vars
    /\ [][CommitAuthor \subseteq CommitAuthor']_vars

\* a delivery has looked up the author of a commit and got a row that another
\* delivery created under another display name
C16_Witness ==
    \E r \in Requests, a \in CommitAuthor :
        /\ pc[r] = "create_commit"
        /\ author[r] = a.id
        /\ a.email = author_email(r)
        /\ a.name # <<>>
        /\ ~TrimmedPrefix(Current(r).author.raw, a.name)
        /\ idx[r] = 1

\* the insert of the commit at hand violates a constraint: its key is taken
\* in its repository, or it has no key
Violates(r) ==
    \/ HasRow(Commit, repo[r].id, Current(r).hash)
    \/ Current(r).hash = JsonNull

\* C17: whatever constraint the insert of a commit violates (the unique index
\* on (repository, key) or another one), the error is passed over: no Commit
\* row is added, the loop goes on to the next commit, and a request that meets
\* no other failure is answered 204 with its other commits ingested.
C17_AnyIntegrityError ==
    /\ [][\A r \in Requests :
            (pc[r] = "create_commit" /\ Stepped(r) /\ Violates(r))
            => /\ Commit' = Commit
               /\ pc'[r] = "commit"
               /\ idx'[r] = idx[r] + 1
               /\ status'[r] = 0]_vars
    /\ [](\A r \in Requests :
            (/\ pc[r] = "done"
             /\ Registered(r)
             /\ \A k \in 1..Len(Payload(r)) :
                    Ignored(Payload(r)[k]) \/ ~Unparseable(Payload(r)[k]))
            => /\ status[r] = 204
               /\ \A k \in 1..Len(Payload(r)) :
                    (~Ignored(Payload(r)[k]) /\ Payload(r)[k].hash # JsonNull)
                    => HasRow(Commit, repo[r].id, Payload(r)[k].hash))

\* the push whose first commit has no hash was handled: answered 204, no row
\* for that commit, a row for the one after it
C17_Witness ==
    \E r \in Requests :
        /\ pc[r] = "done"
        /\ status[r] = 204
        /\ request[r].body = "two"
        /\ ~\E c \in Commit : c.key = JsonNull
        /\ HasRow(Commit, repo[r].id, "h1")

\* C18: once a Commit row exists for (repository, key), no delivery changes its
\* message, author or date_added, also when it carries the same hash with
\* other content; the handler only adds rows, it never modifies or removes one.
C18_FirstWriteWins ==
    /\ [][\A c \in Commit, d \in Commit' :
            (d.repository_id = c.repository_id /\ d.key = c.key) => d = c]_vars
    /\ [][Commit \subseteq Commit']_vars

\* a delivery has gone past a commit whose hash has a row with another
\* message, another author and another date than the payload gives it
C18_Witness ==
    \E r \in Requests, c \in Commit :
        /\ Registered(r)
        /\ pc[r] \in {"commit", "done"}
        /\ idx[r] > 1
        /\ ~Ignored(Payload(r)[1])
        /\ ~Unparseable(Payload(r)[1])
        /\ c.repository_id = repo[r].id
        /\ c.key = Payload(r)[1].hash
        /\ c.message # Payload(r)[1].message
        /\ c.date_added # Payload(r)[1].date.local - Payload(r)[1].date.offset
        /\ \E a \in CommitAuthor :
            a.id = c.author /\ a.email # parse_raw_user(Payload(r)[1].author.raw).value

\* rows of a table that belong to other organizations than o
Foreign(rows, o) == {x \in rows : x.organization_id # o}

\* C19: a delivery addressed to organization O matches its repository among
\* O's repositories only (404 when the external id is registered under another
\* organization), writes only rows of O -- each Commit row with a repository of
\* O and, when not null, an author of O -- and leaves the rows of every other
\* organization unchanged.
C19_TenantScoping ==
    /\ [](\A c \in Commit :
            /\ c.repository_id \in DOMAIN Repository
            /\ Repository[c.repository_id].organization_id = c.organization_id
            /\ c.author # NULL =>
                \E a \in CommitAuthor :
                    a.id = c.author /\ a.organization_id = c.organization_id)
    /\ [](\A r \in Requests :
            /\ repo[r] # NoRepo =>
                Repository[repo[r].id].organization_id = request[r].organization_id
            /\ \A e \in DOMAIN authors[r] :
                authors[r][e].organization_id = request[r].organization_id
            /\ (/\ pc[r] = "done"
                /\ Invoked(r)
                /\ ~\E id \in DOMAIN Repository :
                    /\ Repository[id].organization_id = request[r].organization_id
                    /\ Repository[id].external_id = event[r].repository.uuid
                    /\ Repository[id].provider = "bitbucket")
               => status[r] = 404)
    /\ [][\A r \in Requests :
            Stepped(r) =>
            LET o == request'[r].organization_id IN
            /\ \A c \in Commit' \ Commit : c.organization_id = o
            /\ \A a \in CommitAuthor' \ CommitAuthor : a.organization_id = o
            /\ Foreign(Commit', o) = Foreign(Commit, o)
            /\ Foreign(CommitAuthor', o) = Foreign(CommitAuthor, o)
            /\ \A id \in DOMAIN Repository :
                Repository[id].organization_id # o
                => Repository'[id] = Repository[id]]_vars

\* two organizations each have their own CommitAuthor row for the same email
\* and their own Commit row for the same hash
C19_Witness ==
    \E a1, a2 \in CommitAuthor, c1, c2 \in Commit :
        /\ a1.organization_id = 1 /\ a2.organization_id = 2
        /\ a1.email = a2.email
        /\ c1.organization_id = 1 /\ c2.organization_id = 2
        /\ c1.key = c2.key
        /\ c1.author = a1.id /\ c2.author = a2.id

====
